---- MODULE Spec2Model ----
(***************************************************************************)
(* IDU Device Data Processor & XML Generator (idu_xml_generator_app.py).   *)
(*                                                                         *)
(* Python strings are sequences of tokens: a token is one character        *)
(* (" ", "\n", "&", a control character) or an atomic run of ordinary      *)
(* non-blank characters ("SN1", "JIDU6601", "_Chunk").  A table cell is a  *)
(* record [kind, text]: a str object, a missing value (float NaN) or a     *)
(* number; text is what Python's str() gives for it.                       *)
(***************************************************************************)
EXTENDS Integers, Sequences, FiniteSets, TLC

VARIABLES
    df,                  \* the table handed to the function or loaded by the page
    chunk_size,          \* the chunk size of this configuration
    ret,                 \* last call of a pipeline function: name, arguments, result
    xml_files,           \* st.session_state.xml_files
    processing_complete, \* st.session_state.processing_complete
    surfaced,            \* what the last script run showed in tab 1
    button_shown,        \* the last script run rendered the process button
    zip_file,            \* the archive tab 3 built in the last script run
    results_view,        \* what tab 2 showed in the last script run
    last_run             \* what the last script run did with process_data_to_xml

vars == <<df, chunk_size, ret, xml_files, processing_complete, surfaced,
          button_shown, zip_file, results_view, last_run>>

-----------------------------------------------------------------------------
(* Bounds of the model *)

MaxRows == 3        \* rows of a table handed to one pipeline function
MaxChunkSize == 2   \* chunk sizes tried besides CHUNK_SIZE
MaxAppRows == 2     \* rows of a table loaded by the page

-----------------------------------------------------------------------------
(* Strings *)

\* a one-word string
S(w) == <<w>>

\* characters str.strip() removes
IsSpace(tok) == tok \in {" ", "\n"}

RECURSIVE lstrip(_)
lstrip(s) == IF s # <<>> /\ IsSpace(Head(s)) THEN lstrip(Tail(s)) ELSE s

RECURSIVE rstrip(_)
rstrip(s) ==
    IF s # <<>> /\ IsSpace(s[Len(s)]) THEN rstrip(SubSeq(s, 1, Len(s) - 1)) ELSE s

strip(s) == rstrip(lstrip(s))

RECURSIVE Concat(_)
Concat(ss) == IF ss = <<>> THEN <<>> ELSE Head(ss) \o Concat(Tail(ss))

\* sep.join(parts)
RECURSIVE Join(_, _)
Join(sep, parts) ==
    IF parts = <<>> THEN <<>>
    ELSE IF Len(parts) = 1 THEN parts[1]
    ELSE parts[1] \o sep \o Join(sep, Tail(parts))

Digit(d) == <<"0", "1", "2", "3", "4", "5", "6", "7", "8", "9">>[d + 1]

\* the decimal text an f-string gives for a non-negative int
RECURSIVE Decimal(_)
Decimal(n) == IF n < 10 THEN <<Digit(n)>> ELSE Decimal(n \div 10) \o <<Digit(n % 10)>>

\* the elements of s that satisfy Keep, in order
RECURSIVE SelectSeqIdx(_, _, _)
SelectSeqIdx(s, keep, i) ==
    IF i > Len(s) THEN <<>>
    ELSE (IF keep[i] THEN <<s[i]>> ELSE <<>>) \o SelectSeqIdx(s, keep, i + 1)

Min(a, b) == IF a < b THEN a ELSE b

-----------------------------------------------------------------------------
(* Configuration *)

CHUNK_SIZE == 25000

ALLOWED_VERSIONS ==
    <<S("R2.0.18.2"), S("R2.0.18"), S("R2.0.19"), S("R2.0.19.5"), S("R2.0.16"),
      S("R2.0.19.6")>>

DEVICE_MODELS ==
    <<S("JIDU6601"), S("JIDU6611"), S("JIDU6401"), S("JIDU6701"), S("JIDU6801"),
      S("JIDU6101"), S("JIDU6111"), S("JIDU6311"), S("JIDU6411"), S("JIDU6811"),
      S("JIDU6911")>>

MANUFACTURER_MAP ==
    (S("JIDU6101") :> S("Arcadyan")) @@ (S("JIDU6111") :> S("Arcadyan")) @@
    (S("JIDU6311") :> S("Bluebank")) @@ (S("JIDU6401") :> S("Sercomm")) @@
    (S("JIDU6411") :> S("Sercomm")) @@ (S("JIDU6601") :> S("Speedtech")) @@
    (S("JIDU6611") :> S("Speedtech")) @@ (S("JIDU6701") :> S("Skyworth")) @@
    (S("JIDU6801") :> S("Telpa")) @@ (S("JIDU6811") :> S("Telpa")) @@
    (S("JIDU6911") :> S("Askey"))

Range(s) == {s[i] : i \in 1..Len(s)}

-----------------------------------------------------------------------------
(* Cells, rows and tables *)

Str(s) == [kind |-> "str", text |-> s]
NaN == [kind |-> "float", text |-> S("nan")]
Num(w) == [kind |-> "int", text |-> S(w)]

Row(m, sn, v) == ("Device Model" :> m) @@ ("Serial Number" :> sn) @@ ("Version" :> v)

DataFrame(cols, rs) == [present |-> TRUE, columns |-> cols, rows |-> rs]
None == [present |-> FALSE, columns |-> {}, rows |-> <<>>]

\* the dtype the readers infer for a column: object when it holds a str (or no
\* row at all), a numeric dtype when it holds only numbers and missing values
ColumnDtype(frame, col) ==
    IF frame.rows = <<>> \/ \E i \in 1..Len(frame.rows) : frame.rows[i][col].kind = "str"
    THEN "object"
    ELSE "float64"

\* Series.str.strip() on one element: a non-str element gives NaN
str_strip(cell) == IF cell.kind = "str" THEN Str(strip(cell.text)) ELSE NaN

\* element == 'literal', element != 'literal', element in list
SeriesEq(cell, s) == cell.kind = "str" /\ cell.text = s
SeriesNe(cell, s) == ~SeriesEq(cell, s)
SeriesIsin(cell, values) == cell.kind = "str" /\ cell.text \in Range(values)

Returned(v) == [raised |-> FALSE, exc |-> "", value |-> v]
Raised(e) == [raised |-> TRUE, exc |-> e, value |-> <<>>]

-----------------------------------------------------------------------------
(* validate_data *)

required_columns == <<"Device Model", "Serial Number", "Version">>

\* a validator that reports every required column once one is missing
missing_columns_all(frame) ==
    IF \E i \in 1..Len(required_columns) : required_columns[i] \notin frame.columns
    THEN required_columns
    ELSE <<>>

missing_columns(frame) ==
    SelectSeqIdx(required_columns,
                 [i \in 1..Len(required_columns) |-> required_columns[i] \notin frame.columns],
                 1)

\* a validator that looks for the first required column only
validate_data_first_only(frame) ==
    IF required_columns[1] \notin frame.columns
    THEN <<FALSE, S("Missing required columns: ") \o S(required_columns[1])>>
    ELSE <<TRUE, S("Data validated successfully")>>

validate_data(frame) ==
    IF missing_columns(frame) # <<>>
    THEN <<FALSE, S("Missing required columns: ")
                  \o Join(<<",", " ">>, [i \in 1..Len(missing_columns(frame)) |->
                                            S(missing_columns(frame)[i])])>>
    ELSE <<TRUE, S("Data validated successfully")>>

-----------------------------------------------------------------------------
(* create_chunks *)

\* the boolean mask of the filter, for one row
RowMask(row, target_model, allowed_versions) ==
    /\ SeriesEq(str_strip(row["Device Model"]), target_model)
    /\ SeriesNe(str_strip(row["Serial Number"]), <<>>)
    /\ SeriesNe(str_strip(row["Version"]), <<>>)
    /\ SeriesIsin(str_strip(row["Version"]), allowed_versions)

filtered_df(frame, target_model, allowed_versions) ==
    DataFrame(frame.columns,
              SelectSeqIdx(frame.rows,
                           [i \in 1..Len(frame.rows) |->
                               RowMask(frame.rows[i], target_model, allowed_versions)],
                           1))

\* a slice that takes end_idx as inclusive of one row less
iloc_short(frame, start_idx, end_idx) ==
    DataFrame(frame.columns, SubSeq(frame.rows, start_idx + 1, end_idx - 1))

\* filtered_df.iloc[start_idx:end_idx]
iloc(frame, start_idx, end_idx) ==
    DataFrame(frame.columns, SubSeq(frame.rows, start_idx + 1, end_idx))

\* frame[col].str: KeyError without the column, AttributeError ("Can only use
\* .str accessor with string values") when the column's dtype is not object
StrAccessor(frame, col) ==
    IF col \notin frame.columns THEN "KeyError"
    ELSE IF ColumnDtype(frame, col) # "object" THEN "AttributeError"
    ELSE ""

\* the columns the mask reads, in evaluation order
mask_columns == <<"Device Model", "Serial Number", "Version">>

\* create_chunks with floor division for the number of chunks
create_chunks_floor(frame, target_model, allowed_versions, size) ==
    LET failing == {i \in 1..Len(mask_columns) : StrAccessor(frame, mask_columns[i]) # ""}
        first == CHOOSE i \in failing : \A j \in failing : i <= j
        f == filtered_df(frame, target_model, allowed_versions)
        num_chunks == Len(f.rows) \div size
    IN  IF failing # {} THEN Raised(StrAccessor(frame, mask_columns[first]))
        ELSE IF f.rows = <<>> THEN Returned(<<>>)
        ELSE Returned([i \in 1..num_chunks |->
                         iloc(f, (i - 1) * size, Min(i * size, Len(f.rows)))])

create_chunks(frame, target_model, allowed_versions, size) ==
    LET failing == {i \in 1..Len(mask_columns) : StrAccessor(frame, mask_columns[i]) # ""}
        first == CHOOSE i \in failing : \A j \in failing : i <= j
        f == filtered_df(frame, target_model, allowed_versions)
        num_chunks == (Len(f.rows) + size - 1) \div size
    IN  IF failing # {} THEN Raised(StrAccessor(frame, mask_columns[first]))
        ELSE IF f.rows = <<>> THEN Returned(<<>>)
        ELSE Returned([i \in 1..num_chunks |->
                         iloc(f, (i - 1) * size, Min(i * size, Len(f.rows)))])

-----------------------------------------------------------------------------
(* generate_xml_from_chunk *)

Get(map, key, default) == IF key \in DOMAIN map THEN map[key] ELSE default

\* characters no XML document may hold: expat rejects them
IsControl(tok) == tok = "^A"

\* ElementTree's _escape_cdata and _escape_attrib, one character at a time
escape_cdata(s) ==
    Concat([i \in 1..Len(s) |->
        CASE s[i] = "&" -> <<"&amp;">>
          [] s[i] = "<" -> <<"&lt;">>
          [] s[i] = ">" -> <<"&gt;">>
          [] OTHER -> <<s[i]>>])

escape_attrib(s) ==
    Concat([i \in 1..Len(s) |->
        CASE s[i] = "&" -> <<"&amp;">>
          [] s[i] = "<" -> <<"&lt;">>
          [] s[i] = ">" -> <<"&gt;">>
          [] s[i] = "\"" -> <<"&quot;">>
          [] s[i] = "\n" -> <<"&#10;">>
          [] OTHER -> <<s[i]>>])

\* minidom's _write_data: the same escapes for text and for attribute values
write_data(s) ==
    Concat([i \in 1..Len(s) |->
        CASE s[i] = "&" -> <<"&amp;">>
          [] s[i] = "<" -> <<"&lt;">>
          [] s[i] = ">" -> <<"&gt;">>
          [] s[i] = "\"" -> <<"&quot;">>
          [] OTHER -> <<s[i]>>])

\* what an XML parser gives back for escaped character data
unescape(s) ==
    [i \in 1..Len(s) |->
        CASE s[i] = "&amp;" -> "&"
          [] s[i] = "&lt;" -> "<"
          [] s[i] = "&gt;" -> ">"
          [] s[i] = "&quot;" -> "\""
          [] s[i] = "&#10;" -> "\n"
          [] OTHER -> s[i]]

\* attribute-value normalisation: a literal line break reads as a space
unescape_attr(s) ==
    unescape([i \in 1..Len(s) |-> IF s[i] = "\n" THEN " " ELSE s[i]])

\* the first index >= from at which tok stands in toks, 0 when there is none
RECURSIVE IndexOf(_, _, _)
IndexOf(toks, tok, from) ==
    IF from > Len(toks) THEN 0
    ELSE IF toks[from] = tok THEN from
    ELSE IndexOf(toks, tok, from + 1)

\* an XML parser's reading of the serial elements of a document, from token i on
RECURSIVE ParseSerials(_, _)
ParseSerials(toks, i) ==
    LET open == IndexOf(toks, "<serial", i)
        q1 == IndexOf(toks, "\"", open + 2)
        q2 == IndexOf(toks, "\"", q1 + 2)
        close == IndexOf(toks, "</serial>", q2 + 2)
    IN  IF open = 0 THEN <<>>
        ELSE <<[Model |-> unescape_attr(SubSeq(toks, open + 2, q1 - 1)),
                Manufacturer |-> unescape_attr(SubSeq(toks, q1 + 2, q2 - 1)),
                text |-> unescape(SubSeq(toks, q2 + 2, close - 1))]>>
             \o ParseSerials(toks, close + 1)

SerialElement(e, esc_attr(_), esc_text(_)) ==
    <<"<serial", " Model=\"">> \o esc_attr(e.Model) \o <<"\"", " Manufacturer=\"">>
    \o esc_attr(e.Manufacturer) \o <<"\"", ">">> \o esc_text(e.text) \o <<"</serial>">>

\* ET.tostring(root, encoding='unicode')
ET_tostring(elems) ==
    IF elems = <<>> THEN <<"<serials />">>
    ELSE <<"<serials>">>
         \o Concat([i \in 1..Len(elems) |->
                      SerialElement(elems[i], escape_attrib, escape_cdata)])
         \o <<"</serials>">>

\* minidom.parseString(xml_str): the children of the root, or ExpatError
minidom_parseString(xml_str) ==
    IF \E i \in 1..Len(xml_str) : IsControl(xml_str[i])
    THEN Raised("ExpatError")
    ELSE Returned(ParseSerials(xml_str, 1))

MinidomDeclaration == "<?xml version=\"1.0\" ?>"
XmlDeclaration == "<?xml version=\"1.0\" encoding=\"UTF-8\"?>"

\* dom.toprettyxml(indent="  ")
toprettyxml(elems) ==
    <<MinidomDeclaration, "\n">>
    \o (IF elems = <<>> THEN <<"<serials/>", "\n">>
        ELSE <<"<serials>", "\n">>
             \o Concat([i \in 1..Len(elems) |->
                          <<" ", " ">> \o SerialElement(elems[i], write_data, write_data)
                          \o <<"\n">>])
             \o <<"</serials>", "\n">>)

\* text.split('\n')
RECURSIVE Split(_)
Split(toks) ==
    LET nl == IndexOf(toks, "\n", 1)
    IN  IF nl = 0 THEN <<toks>>
        ELSE <<SubSeq(toks, 1, nl - 1)>> \o Split(SubSeq(toks, nl + 1, Len(toks)))

\* line.strip() and not line.strip().startswith('<?xml')
KeepLine(line) ==
    /\ strip(line) # <<>>
    /\ Head(strip(line)) \notin {MinidomDeclaration, XmlDeclaration}

\* the serial elements added to the root, in row order
SerialElems(chunk_df, device_model) ==
    LET manufacturer == Get(MANUFACTURER_MAP, device_model, S("Unknown"))
        serial_number(i) == strip(chunk_df.rows[i]["Serial Number"].text)
    IN  SelectSeqIdx([i \in 1..Len(chunk_df.rows) |->
                         [Model |-> device_model, Manufacturer |-> manufacturer,
                          text |-> serial_number(i)]],
                     [i \in 1..Len(chunk_df.rows) |-> serial_number(i) # <<>>],
                     1)

generate_xml_from_chunk(chunk_df, device_model, chunk_number) ==
    IF chunk_df.rows # <<>> /\ "Serial Number" \notin chunk_df.columns
    THEN Raised("KeyError")
    ELSE LET xml_str == ET_tostring(SerialElems(chunk_df, device_model))
             dom == minidom_parseString(xml_str)
             lines == Split(toprettyxml(dom.value))
             kept == SelectSeqIdx(lines, [i \in 1..Len(lines) |-> KeepLine(lines[i])], 1)
             pretty_xml == Join(<<"\n">>, kept)
         IN  IF dom.raised THEN dom
             ELSE Returned(<<XmlDeclaration, "\n">> \o pretty_xml)

-----------------------------------------------------------------------------
(* process_data_to_xml *)

\* a file name numbered from 0
filename_from0(device_model, chunk_num) ==
    device_model \o <<"_Chunk">> \o Decimal(chunk_num - 1) \o <<".xml">>

filename(device_model, chunk_num) ==
    device_model \o <<"_Chunk">> \o Decimal(chunk_num) \o <<".xml">>

\* the loop without its "if chunks:" test
RECURSIVE process_models_keep_empty(_, _, _, _)
process_models_keep_empty(frame, size, m, all_xml_files) ==
    IF m > Len(DEVICE_MODELS) THEN Returned(all_xml_files)
    ELSE LET device_model == DEVICE_MODELS[m]
             chunks == create_chunks(frame, device_model, ALLOWED_VERSIONS, size)
             rendered == [i \in 1..Len(chunks.value) |->
                             generate_xml_from_chunk(chunks.value[i], device_model, i)]
             xml_list == [i \in 1..Len(chunks.value) |->
                             <<filename(device_model, i), rendered[i].value>>]
         IN  IF chunks.raised THEN chunks
             ELSE IF \E i \in 1..Len(rendered) : rendered[i].raised
             THEN rendered[CHOOSE i \in 1..Len(rendered) :
                              /\ rendered[i].raised
                              /\ \A j \in 1..(i - 1) : ~rendered[j].raised]
             ELSE process_models_keep_empty(frame, size, m + 1,
                                 Append(all_xml_files,
                                        [key |-> device_model, files |-> xml_list]))

\* the loop with a failing model skipped instead of ending the run
RECURSIVE process_models_per_model(_, _, _, _)
process_models_per_model(frame, size, m, all_xml_files) ==
    IF m > Len(DEVICE_MODELS) THEN Returned(all_xml_files)
    ELSE LET device_model == DEVICE_MODELS[m]
             chunks == create_chunks(frame, device_model, ALLOWED_VERSIONS, size)
             rendered == [i \in 1..Len(chunks.value) |->
                             generate_xml_from_chunk(chunks.value[i], device_model, i)]
             xml_list == [i \in 1..Len(chunks.value) |->
                             <<filename(device_model, i), rendered[i].value>>]
         IN  IF chunks.raised \/ \E i \in 1..Len(rendered) : rendered[i].raised
             THEN process_models_per_model(frame, size, m + 1, all_xml_files)
             ELSE process_models_per_model(frame, size, m + 1,
                                 IF chunks.value # <<>>
                                 THEN Append(all_xml_files,
                                             [key |-> device_model, files |-> xml_list])
                                 ELSE all_xml_files)

\* one pass of the loop over DEVICE_MODELS, from model number m on; the dict is
\* the sequence of its (key, value) items in insertion order
RECURSIVE process_models(_, _, _, _)
process_models(frame, size, m, all_xml_files) ==
    IF m > Len(DEVICE_MODELS) THEN Returned(all_xml_files)
    ELSE LET device_model == DEVICE_MODELS[m]
             chunks == create_chunks(frame, device_model, ALLOWED_VERSIONS, size)
             rendered == [i \in 1..Len(chunks.value) |->
                             generate_xml_from_chunk(chunks.value[i], device_model, i)]
             xml_list == [i \in 1..Len(chunks.value) |->
                             <<filename(device_model, i), rendered[i].value>>]
         IN  IF chunks.raised THEN chunks
             ELSE IF \E i \in 1..Len(rendered) : rendered[i].raised
             THEN rendered[CHOOSE i \in 1..Len(rendered) :
                              /\ rendered[i].raised
                              /\ \A j \in 1..(i - 1) : ~rendered[j].raised]
             ELSE process_models(frame, size, m + 1,
                                 IF chunks.value # <<>>
                                 THEN Append(all_xml_files,
                                             [key |-> device_model, files |-> xml_list])
                                 ELSE all_xml_files)

process_data_to_xml(frame, size) == process_models(frame, size, 1, <<>>)

-----------------------------------------------------------------------------
(* create_zip_file *)

\* an archive whose entries are named by their model
create_zip_file_by_model(xml_files_dict) ==
    Concat([m \in 1..Len(xml_files_dict) |->
              [i \in 1..Len(xml_files_dict[m].files) |->
                  [name |-> xml_files_dict[m].key,
                   content |-> xml_files_dict[m].files[i][2]]]])

\* zipf.writestr for every (filename, xml_content) of every model, in dict order;
\* the archive is the sequence of its entries
create_zip_file(xml_files_dict) ==
    Concat([m \in 1..Len(xml_files_dict) |->
              [i \in 1..Len(xml_files_dict[m].files) |->
                  [name |-> xml_files_dict[m].files[i][1],
                   content |-> xml_files_dict[m].files[i][2]]]])

-----------------------------------------------------------------------------
(* Inputs *)

BoundedSeq(set, n) == UNION {[1..k -> set] : k \in 0..n}

ChunkSizes == (1..MaxChunkSize) \cup {CHUNK_SIZE}

Columns3 == {"Device Model", "Serial Number", "Version"}

GoodRow == Row(Str(S("JIDU6601")), Str(S("SN1")), Str(S("R2.0.19")))
PaddedRow == Row(Str(<<" ", "JIDU6601", " ">>), Str(<<" ", "SN2", "\n">>),
                 Str(<<"R2.0.18.2", " ">>))
BlankSerialRow == Row(Str(S("JIDU6601")), Str(<<" ">>), Str(S("R2.0.19")))
EmptySerialRow == Row(Str(S("JIDU6601")), Str(<<>>), Str(S("R2.0.19")))
MissingSerialRow == Row(Str(S("JIDU6601")), NaN, Str(S("R2.0.19")))
NumericSerialRow == Row(Str(S("JIDU6601")), Num("1001"), Str(S("R2.0.16")))
OtherVersionRow == Row(Str(S("JIDU6701")), Str(S("SN2")), Str(S("R9.9.9")))
EmptyVersionRow == Row(Str(S("JIDU6701")), Str(S("SN5")), Str(<<>>))
MissingModelRow == Row(NaN, Str(S("SN3")), NaN)
UnknownModelRow == Row(Str(S("JIDU9999")), Str(S("SN4")), Str(S("R2.0.19")))
SecondModelRow == Row(Str(S("JIDU6701")), Str(<<"A", "&", "B">>), Str(S("R2.0.19.6")))
ControlCharRow == Row(Str(S("JIDU6911")), Str(<<"SN6", "^A">>), Str(S("R2.0.16")))

NoCall == [fn |-> "none", model |-> <<>>, arg |-> <<>>, result |-> Returned(<<>>)]
NoZip == [present |-> FALSE, entries |-> <<>>]
NoResults ==
    [shown |-> FALSE, total_models |-> 0, total_files |-> 0, total_serial_numbers |-> 0,
     breakdown |-> <<>>, stats_data |-> <<>>]
NothingShown == [kind |-> "none", message |-> <<>>]

\* the page before any input: the session state of lines 128-133
SessionInit ==
    /\ xml_files = <<>>
    /\ processing_complete = FALSE
    /\ surfaced = NothingShown
    /\ button_shown = FALSE
    /\ zip_file = NoZip
    /\ results_view = NoResults
    /\ last_run = "none"

SessionUnchanged ==
    UNCHANGED <<xml_files, processing_complete, surfaced, button_shown, zip_file,
                results_view, last_run>>

-----------------------------------------------------------------------------
(* create_chunks applied to bounded tables *)

ChunkPool ==
    {GoodRow, PaddedRow, BlankSerialRow, MissingSerialRow, NumericSerialRow,
     OtherVersionRow, EmptyVersionRow, MissingModelRow, UnknownModelRow}

ChunkTargets == {S("JIDU6601"), S("JIDU6701"), S("JIDU9999")}

InitChunks ==
    /\ df \in {DataFrame(Columns3, rs) : rs \in BoundedSeq(ChunkPool, MaxRows)}
    /\ chunk_size \in ChunkSizes
    /\ ret = NoCall
    /\ SessionInit

CallCreateChunks ==
    /\ \E target_model \in ChunkTargets :
          ret' = [fn |-> "create_chunks", model |-> target_model, arg |-> df,
                  result |-> create_chunks(df, target_model, ALLOWED_VERSIONS, chunk_size)]
    /\ UNCHANGED <<df, chunk_size>>
    /\ SessionUnchanged

NextChunks == CallCreateChunks

SpecChunks == InitChunks /\ [][NextChunks]_vars

ChunksReturned == ret.fn = "create_chunks" /\ ~ret.result.raised

\* the trimmed value of a field: a blank (missing) cell has none
Trimmed(cell) == IF cell.kind = "float" THEN <<>> ELSE strip(cell.text)

\* the four conditions of the filtering policy
PassesPolicy(row, model, allowed) ==
    /\ Trimmed(row["Device Model"]) = model
    /\ Trimmed(row["Serial Number"]) # <<>>
    /\ Trimmed(row["Version"]) # <<>>
    /\ Trimmed(row["Version"]) \in Range(allowed)

InSomeChunk(row, chunks) ==
    \E k \in 1..Len(chunks) : \E j \in 1..Len(chunks[k].rows) : chunks[k].rows[j] = row

\* C1: a row of a validated table is in some chunk for model M iff its trimmed
\* Device Model equals M, its trimmed Serial Number and Version are non-empty and
\* its trimmed Version is allowed; a blank (missing) cell counts as empty.
C1_RowInChunkIffPolicy ==
    ChunksReturned =>
        \A i \in 1..Len(df.rows) :
            InSomeChunk(df.rows[i], ret.result.value)
                <=> PassesPolicy(df.rows[i], ret.model, ALLOWED_VERSIONS)

\* the rows the mask keeps, by position
Passing(frame, model) ==
    {i \in 1..Len(frame.rows) : RowMask(frame.rows[i], model, ALLOWED_VERSIONS)}

CeilDiv(n, d) == IF n % d = 0 THEN n \div d ELSE (n \div d) + 1

RECURSIVE SumLen(_)
SumLen(chunks) == IF chunks = <<>> THEN 0 ELSE Len(Head(chunks).rows) + SumLen(Tail(chunks))

\* C2: with n rows passing the filter, create_chunks returns ceil(n / chunkSize)
\* chunks; all but the last hold chunkSize rows; the last holds n mod chunkSize
\* rows, or chunkSize when that is 0; no chunk is empty; the lengths sum to n.
C2_ChunkSizes ==
    ChunksReturned =>
        LET chunks == ret.result.value
            n == Cardinality(Passing(df, ret.model))
        IN  /\ Len(chunks) = CeilDiv(n, chunk_size)
            /\ \A k \in 1..(Len(chunks) - 1) : Len(chunks[k].rows) = chunk_size
            /\ chunks # <<>> =>
                  Len(chunks[Len(chunks)].rows) =
                      (IF n % chunk_size = 0 THEN chunk_size ELSE n % chunk_size)
            /\ \A k \in 1..Len(chunks) : chunks[k].rows # <<>>
            /\ SumLen(chunks) = n

C2_Witness ==
    /\ ChunksReturned
    /\ Len(ret.result.value) >= 2
    /\ Len(ret.result.value[Len(ret.result.value)].rows) < chunk_size

\* the j-th smallest element of a set of positions
Nth(set, j) == CHOOSE i \in set : Cardinality({k \in set : k <= i}) = j

\* C3: the chunks, concatenated in list order, are exactly the rows passing the
\* filter in their order in the table: none duplicated, dropped or reordered;
\* the table is after the call what was handed to it.
C3_ConcatIsFiltered ==
    ChunksReturned =>
        LET out == Concat([k \in 1..Len(ret.result.value) |-> ret.result.value[k].rows])
            keep == Passing(df, ret.model)
        IN  /\ Len(out) = Cardinality(keep)
            /\ \A j \in 1..Len(out) : out[j] = df.rows[Nth(keep, j)]
            /\ df = ret.arg

C3_Witness ==
    /\ ChunksReturned
    /\ Len(ret.result.value) >= 2
    /\ \E i \in 1..Len(df.rows) : i \notin Passing(df, ret.model) /\ i < Len(df.rows)
    /\ \E i, j \in Passing(df, ret.model) : df.rows[i] # df.rows[j]

-----------------------------------------------------------------------------
(* generate_xml_from_chunk applied to bounded chunks *)

SerialCells ==
    {Str(S("SN1")), Str(<<" ", "SN2", "\n">>), Str(<<" ">>), NaN, Num("1001"),
     Str(<<"A", "&", "B">>), Str(<<"A", "\n", "\n", "B">>), Str(<<"SN6", "^A">>)}

RenderPool == {Row(Str(S("JIDU6601")), sn, Str(S("R2.0.19"))) : sn \in SerialCells}

RenderModels == {S("JIDU6601"), S("JIDU9999")}

InitRender ==
    /\ df \in {DataFrame(Columns3, rs) : rs \in BoundedSeq(RenderPool, MaxRows)}
    /\ chunk_size = CHUNK_SIZE
    /\ ret = NoCall
    /\ SessionInit

CallRender ==
    /\ \E device_model \in RenderModels :
          ret' = [fn |-> "generate_xml_from_chunk", model |-> device_model, arg |-> <<>>,
                  result |-> generate_xml_from_chunk(df, device_model, 1)]
    /\ UNCHANGED <<df, chunk_size>>
    /\ SessionUnchanged

NextRender == CallRender

SpecRender == InitRender /\ [][NextRender]_vars

Rendered == ret.fn = "generate_xml_from_chunk" /\ ~ret.result.raised

\* a rendered document read back as (Model, Manufacturer, text) triples
ReadBack(doc) == ParseSerials(doc, 1)

\* the triples the round trip is to give: one per record whose serial number,
\* as text, trims to a non-empty string
ExpectedTriples(chunk_df, device_model) ==
    LET sn(i) == strip(chunk_df.rows[i]["Serial Number"].text)
        nonempty == {i \in 1..Len(chunk_df.rows) : sn(i) # <<>>}
    IN  [j \in 1..Cardinality(nonempty) |->
            [Model |-> device_model,
             Manufacturer |-> IF device_model \in DOMAIN MANUFACTURER_MAP
                              THEN MANUFACTURER_MAP[device_model]
                              ELSE S("Unknown"),
             text |-> sn(Nth(nonempty, j))]]

\* C4: reading a rendered document back gives one (Model, Manufacturer, text)
\* triple per chunk record with a non-empty trimmed serial number, in chunk
\* order, text being the trimmed serial number, Model the given model and
\* Manufacturer its MANUFACTURER_MAP entry or "Unknown".
C4_RoundTrip ==
    Rendered => ReadBack(ret.result.value) = ExpectedTriples(df, ret.model)

-----------------------------------------------------------------------------
(* process_data_to_xml and create_zip_file applied to bounded tables *)

ProcPool ==
    {GoodRow, PaddedRow, EmptySerialRow, MissingSerialRow, OtherVersionRow,
     SecondModelRow, UnknownModelRow, ControlCharRow}

InitProcess ==
    /\ df \in {DataFrame(Columns3, rs) : rs \in BoundedSeq(ProcPool, MaxRows)}
    /\ chunk_size \in ChunkSizes
    /\ ret = NoCall
    /\ SessionInit

CallProcess ==
    /\ ret' = [fn |-> "process_data_to_xml", model |-> <<>>, arg |-> <<>>,
               result |-> process_data_to_xml(df, chunk_size)]
    /\ UNCHANGED <<df, chunk_size>>
    /\ SessionUnchanged

\* the archive of the mapping the last call of process_data_to_xml returned
CallZip ==
    /\ ret.fn = "process_data_to_xml"
    /\ ~ret.result.raised
    /\ ret' = [fn |-> "create_zip_file", model |-> <<>>, arg |-> ret.result.value,
               result |-> Returned(create_zip_file(ret.result.value))]
    /\ UNCHANGED <<df, chunk_size>>
    /\ SessionUnchanged

NextProcess == CallProcess \/ CallZip

SpecProcess == InitProcess /\ [][NextProcess]_vars

Processed == ret.fn = "process_data_to_xml" /\ ~ret.result.raised

Keys(mapping) == {mapping[k].key : k \in 1..Len(mapping)}

\* the number of serial elements in a model's documents
RECURSIVE SerialCount(_)
SerialCount(files) ==
    IF files = <<>> THEN 0 ELSE Len(ReadBack(Head(files)[2])) + SerialCount(Tail(files))

\* C5: the mapping has a key for model M iff M is in DEVICE_MODELS and some row
\* passes the filter for M with ALLOWED_VERSIONS; no key maps to an empty list;
\* rows of a model outside DEVICE_MODELS contribute to no entry (an entry holds
\* as many serials as rows pass the filter for its model).
C5_KeysAreModelsWithRows ==
    Processed =>
        LET out == ret.result.value
        IN  /\ \A M \in Range(DEVICE_MODELS) \cup Keys(out) \cup {S("JIDU9999")} :
                  M \in Keys(out) <=> (M \in Range(DEVICE_MODELS) /\ Passing(df, M) # {})
            /\ \A k \in 1..Len(out) : out[k].files # <<>>
            /\ \A k1, k2 \in 1..Len(out) : out[k1].key = out[k2].key => k1 = k2
            /\ \A k \in 1..Len(out) :
                  SerialCount(out[k].files) = Cardinality(Passing(df, out[k].key))

C5_Witness ==
    /\ Processed
    /\ Len(ret.result.value) = 1
    /\ \E i \in 1..Len(df.rows) : df.rows[i] = UnknownModelRow
    /\ \E i \in 1..Len(df.rows) : df.rows[i] = OtherVersionRow

\* the position of a model in DEVICE_MODELS
ModelIndex(M) == CHOOSE m \in 1..Len(DEVICE_MODELS) : DEVICE_MODELS[m] = M

ChunkNumberText == <<"1", "2", "3", "4", "5", "6", "7", "8", "9">>

\* C6: a model in the result with k chunks has k entries; entry i is named
\* "{M}_Chunk{i}.xml" and holds the rendering of the i-th chunk of create_chunks
\* for M; numbering starts at 1 without gaps; the models come in DEVICE_MODELS
\* order.
C6_FilesPerChunk ==
    Processed =>
        LET out == ret.result.value
        IN  /\ \A k \in 1..Len(out) :
                  LET M == out[k].key
                      chunks == create_chunks(df, M, ALLOWED_VERSIONS, chunk_size).value
                  IN  /\ Len(out[k].files) = Len(chunks)
                      /\ \A i \in 1..Len(chunks) :
                            /\ out[k].files[i][1] =
                                   M \o <<"_Chunk", ChunkNumberText[i], ".xml">>
                            /\ out[k].files[i][2] =
                                   generate_xml_from_chunk(chunks[i], M, i).value
            /\ \A k1, k2 \in 1..Len(out) :
                  k1 < k2 => ModelIndex(out[k1].key) < ModelIndex(out[k2].key)

C6_Witness ==
    /\ Processed
    /\ Len(ret.result.value) >= 2
    /\ \E k \in 1..Len(ret.result.value) : Len(ret.result.value[k].files) >= 2

\* C8: the archive's entries correspond one to one to the (filename, document)
\* pairs of the mapping: as many entries as pairs, each named by its pair's
\* filename and holding its document, no two with the same name; the empty
\* mapping gives an archive with no entry.
C8_ArchiveMatchesPairs ==
    ret.fn = "create_zip_file" =>
        LET mapping == ret.arg
            entries == ret.result.value
            pairs == {p \in (1..Len(mapping)) \X (1..Len(df.rows)) :
                         p[2] <= Len(mapping[p[1]].files)}
        IN  /\ ~ret.result.raised
            /\ Len(entries) = Cardinality(pairs)
            /\ \A p \in pairs :
                  \E e \in 1..Len(entries) :
                      /\ entries[e].name = mapping[p[1]].files[p[2]][1]
                      /\ entries[e].content = mapping[p[1]].files[p[2]][2]
            /\ \A e1, e2 \in 1..Len(entries) :
                  entries[e1].name = entries[e2].name => e1 = e2
            /\ mapping = <<>> => entries = <<>>

C8_Witness ==
    /\ ret.fn = "create_zip_file"
    /\ Len(ret.arg) >= 2
    /\ Len(ret.result.value) >= 3

-----------------------------------------------------------------------------
(* validate_data applied to bounded tables *)

AllColumns == Columns3 \cup {"Extra"}

WideRows ==
    {GoodRow @@ ("Extra" :> Str(S("x"))),
     Row(Num("6601"), NaN, Num("2")) @@ ("Extra" :> NaN)}

Restrict(row, cols) == [c \in cols |-> row[c]]

ValidateTables ==
    {DataFrame(cols, [i \in 1..Len(rs) |-> Restrict(rs[i], cols)]) :
        cols \in SUBSET AllColumns \ {{}}, rs \in BoundedSeq(WideRows, MaxRows)}
    \cup {DataFrame({}, <<>>)}

InitValidate ==
    /\ df \in ValidateTables
    /\ chunk_size = CHUNK_SIZE
    /\ ret = NoCall
    /\ SessionInit

CallValidate ==
    /\ ret' = [fn |-> "validate_data", model |-> <<>>, arg |-> <<>>,
               result |-> Returned(validate_data(df))]
    /\ UNCHANGED <<df, chunk_size>>
    /\ SessionUnchanged

NextValidate == CallValidate

SpecValidate == InitValidate /\ [][NextValidate]_vars

Absent(frame) == Columns3 \ frame.columns

\* the column names a validation message lists after its prefix
NamesListed(msg) == SelectSeq(Tail(msg), LAMBDA tok : tok \notin {",", " "})

\* C7: validate_data fails iff one of 'Device Model', 'Serial Number', 'Version'
\* is not among the table's columns, and its message then names exactly the
\* absent required columns; extra columns, an empty table and cell types never
\* make it fail.
C7_FailsIffColumnAbsent ==
    ret.fn = "validate_data" =>
        LET ok == ret.result.value[1]
            msg == ret.result.value[2]
        IN  /\ ~ret.result.raised
            /\ ok = FALSE <=> Absent(df) # {}
            /\ ~ok => /\ Head(msg) = "Missing required columns: "
                      /\ Range(NamesListed(msg)) = Absent(df)
                      /\ Len(NamesListed(msg)) = Cardinality(Absent(df))

C7_Witness ==
    /\ ret.fn = "validate_data"
    /\ ret.result.value[1] = FALSE
    /\ Absent(df) = {"Device Model", "Version"}
    /\ "Extra" \in df.columns
    /\ df.rows # <<>>

-----------------------------------------------------------------------------
(* The page: one step is one run of the script, from a user's interaction *)

AppPool == {GoodRow, MissingSerialRow, OtherVersionRow, ControlCharRow}

AppTables ==
    {DataFrame(Columns3, rs) : rs \in BoundedSeq(AppPool, MaxAppRows)}
    \cup {DataFrame(cols, <<Restrict(GoodRow, cols)>>) :
             cols \in {{"Device Model", "Serial Number"}, {"Serial Number"}}}

\* the tokens of a document that hold the text '<serial' (once each)
SerialTagTokens == {"<serial", "<serials>", "<serials/>", "<serials />"}

\* sum of f[1..n]
RECURSIVE SumOver(_, _)
SumOver(f, n) == IF n = 0 THEN 0 ELSE f[n] + SumOver(f, n - 1)

\* xml_content.count('<serial')
count_serial(xml_content) ==
    Cardinality({i \in 1..Len(xml_content) : xml_content[i] \in SerialTagTokens})

\* sum(xml_content.count('<serial') for _, xml_content in files)
total_serials(files) ==
    SumOver([i \in 1..Len(files) |-> count_serial(files[i][2])], Len(files))

\* the models of DEVICE_MODELS in the order sorted() gives their names
SortedModels ==
    <<S("JIDU6101"), S("JIDU6111"), S("JIDU6311"), S("JIDU6401"), S("JIDU6411"),
      S("JIDU6601"), S("JIDU6611"), S("JIDU6701"), S("JIDU6801"), S("JIDU6811"),
      S("JIDU6911")>>

\* sorted(xml_files_dict.items())
sorted_items(xml_files_dict) ==
    LET has(M) == \E k \in 1..Len(xml_files_dict) : xml_files_dict[k].key = M
        at(M) == CHOOSE k \in 1..Len(xml_files_dict) : xml_files_dict[k].key = M
    IN  SelectSeqIdx([m \in 1..Len(SortedModels) |->
                         IF has(SortedModels[m])
                         THEN xml_files_dict[at(SortedModels[m])]
                         ELSE [key |-> SortedModels[m], files |-> <<>>]],
                     [m \in 1..Len(SortedModels) |-> has(SortedModels[m])],
                     1)

\* tab 2: the summary metrics, the breakdown by device model (one line per file,
\* with its serial count) and the statistics table
Tab2(complete, files) ==
    LET items == sorted_items(files)
        line(file) == [filename |-> file[1], serial_count |-> count_serial(file[2])]
    IN  IF complete /\ files # <<>>
        THEN [shown |-> TRUE,
              total_models |-> Len(files),
              total_files |->
                  SumOver([k \in 1..Len(files) |-> Len(files[k].files)], Len(files)),
              total_serial_numbers |->
                  SumOver([k \in 1..Len(files) |-> total_serials(files[k].files)],
                          Len(files)),
              breakdown |->
                  [k \in 1..Len(items) |->
                      [device_model |-> items[k].key,
                       manufacturer |-> Get(MANUFACTURER_MAP, items[k].key, S("Unknown")),
                       lines |-> [i \in 1..Len(items[k].files) |-> line(items[k].files[i])]]],
              stats_data |->
                  [k \in 1..Len(files) |->
                      [device_model |-> files[k].key,
                       manufacturer |-> Get(MANUFACTURER_MAP, files[k].key, S("Unknown")),
                       xml_files |-> Len(files[k].files),
                       total_serials |-> total_serials(files[k].files)]]]
        ELSE NoResults

\* tab 3: the archive is built when a result is stored
Tab3(complete, files) ==
    IF complete /\ files # <<>>
    THEN [present |-> TRUE, entries |-> create_zip_file(files)]
    ELSE NoZip

Init ==
    /\ df = None
    /\ chunk_size \in ChunkSizes
    /\ ret = NoCall
    /\ SessionInit

\* a file is uploaded or CSV text pasted, and read into a table
ProvideInput(table) ==
    /\ df' = table
    /\ surfaced' = IF validate_data(table)[1]
                   THEN [kind |-> "loaded", message |-> <<>>]
                   ELSE [kind |-> "warning", message |-> validate_data(table)[2]]
    /\ button_shown' = validate_data(table)[1]
    /\ last_run' = "not_invoked"
    /\ zip_file' = Tab3(processing_complete, xml_files)
    /\ results_view' = Tab2(processing_complete, xml_files)
    /\ UNCHANGED <<chunk_size, ret, xml_files, processing_complete>>

\* the input cannot be read: df stays None
ReadFails ==
    /\ df' = None
    /\ surfaced' = [kind |-> "error", message |-> S("Error reading file: ")]
    /\ button_shown' = FALSE
    /\ last_run' = "not_invoked"
    /\ zip_file' = Tab3(processing_complete, xml_files)
    /\ results_view' = Tab2(processing_complete, xml_files)
    /\ UNCHANGED <<chunk_size, ret, xml_files, processing_complete>>

\* the input is removed
ClearInput ==
    /\ df' = None
    /\ surfaced' = NothingShown
    /\ button_shown' = FALSE
    /\ last_run' = "not_invoked"
    /\ zip_file' = Tab3(processing_complete, xml_files)
    /\ results_view' = Tab2(processing_complete, xml_files)
    /\ UNCHANGED <<chunk_size, ret, xml_files, processing_complete>>

\* the process button is clicked: the script runs again with the same input;
\* on success the result is stored and st.rerun() runs the script once more
ClickProcess ==
    /\ button_shown
    /\ df.present
    /\ validate_data(df)[1]
    /\ LET xml_files_dict == process_data_to_xml(df, chunk_size)
       IN  IF xml_files_dict.raised
           THEN /\ surfaced' = [kind |-> "error",
                                message |-> <<"Error during processing: ",
                                              xml_files_dict.exc>>]
                /\ last_run' = "raised"
                /\ zip_file' = Tab3(processing_complete, xml_files)
                /\ results_view' = Tab2(processing_complete, xml_files)
                /\ UNCHANGED <<xml_files, processing_complete>>
           ELSE /\ xml_files' = xml_files_dict.value
                /\ processing_complete' = TRUE
                /\ surfaced' = [kind |-> "loaded", message |-> <<>>]
                /\ last_run' = "completed"
                /\ zip_file' = Tab3(TRUE, xml_files_dict.value)
                /\ results_view' = Tab2(TRUE, xml_files_dict.value)
    /\ UNCHANGED <<df, chunk_size, ret, button_shown>>

Next ==
    \/ \E table \in AppTables : ProvideInput(table)
    \/ ReadFails
    \/ ClearInput
    \/ ClickProcess

Spec == Init /\ [][Next]_vars

\* a mapping that is the whole result for a table: every model with passing rows
\* has its key, with one file per chunk
CompleteFor(mapping, frame, size) ==
    \A m \in 1..Len(DEVICE_MODELS) :
        LET chunks == create_chunks(frame, DEVICE_MODELS[m], ALLOWED_VERSIONS, size)
        IN  /\ ~chunks.raised
            /\ chunks.value # <<>> =>
                  \E k \in 1..Len(mapping) :
                      /\ mapping[k].key = DEVICE_MODELS[m]
                      /\ Len(mapping[k].files) = Len(chunks.value)

\* C9: when chunking or rendering raises during a processing run, the stored
\* result and the processing_complete flag keep their values; the stored result
\* is only ever replaced by the complete mapping of a run that finished for all
\* models.
C9_AbortedRunStoresNothing ==
    [][/\ last_run' = "raised" =>
            /\ xml_files' = xml_files
            /\ processing_complete' = processing_complete
       /\ xml_files' # xml_files =>
            /\ last_run' = "completed"
            /\ CompleteFor(xml_files', df', chunk_size')]_vars

C9_Witness ==
    /\ last_run = "raised"
    /\ df.rows = <<GoodRow, ControlCharRow>>
    /\ processing_complete
    /\ xml_files # <<>>

\* C10: on a loaded table that lacks a required column process_data_to_xml is
\* not invoked: the missing-column message is shown, and the stored result and
\* the processing_complete flag are not modified.
C10_SchemaFailureHalts ==
    [][(df'.present /\ Absent(df') # {}) =>
            /\ last_run' = "not_invoked"
            /\ surfaced'.kind = "warning"
            /\ Range(NamesListed(surfaced'.message)) = Absent(df')
            /\ xml_files' = xml_files
            /\ processing_complete' = processing_complete]_vars

C10_Witness ==
    /\ df.present
    /\ Absent(df) = {"Device Model", "Version"}
    /\ surfaced.kind = "warning"
    /\ processing_complete
    /\ xml_files # <<>>

-----------------------------------------------------------------------------
(* Tab 2: the serial counts shown for the stored result *)

\* the document stored under a file name
DocumentOf(mapping, name) ==
    LET where == CHOOSE p \in UNION {{<<k, i>> : i \in 1..Len(mapping[k].files)} :
                                        k \in 1..Len(mapping)} :
                     mapping[p[1]].files[p[2]][1] = name
    IN  mapping[where[1]].files[where[2]][2]

\* the number of serial child elements in a model's documents
RECURSIVE SerialElements(_)
SerialElements(files) ==
    IF files = <<>> THEN 0
    ELSE Len(ReadBack(Head(files)[2])) + SerialElements(Tail(files))

\* C11: for every generated document the serial count shown for its file equals
\* the number of serial child elements in it, and so do the per-model totals
\* and the overall 'Total Serial Numbers' summed from it.
C11_ShownCountIsSerialElements ==
    results_view.shown =>
        /\ \A k \in 1..Len(results_view.breakdown) :
              \A i \in 1..Len(results_view.breakdown[k].lines) :
                  results_view.breakdown[k].lines[i].serial_count =
                      Len(ReadBack(DocumentOf(xml_files,
                                              results_view.breakdown[k].lines[i].filename)))
        /\ \A k \in 1..Len(results_view.stats_data) :
              results_view.stats_data[k].total_serials =
                  SerialElements(xml_files[k].files)
        /\ results_view.total_serial_numbers =
              SumOver([k \in 1..Len(xml_files) |-> SerialElements(xml_files[k].files)],
                      Len(xml_files))

====
